---------------------------- MODULE Spec2Model ----------------------------
(* BSTMap (src/SYSC2100/bstmap.py): an ADT Map on an unbalanced binary     *)
(* search tree.  The heap of _Node objects is an arena: node n is           *)
(* nodes[n], the reference None is 0, and a node's identity is the order    *)
(* in which BSTMap._Node(...) created it.                                   *)
EXTENDS Integers, Sequences, FiniteSets, TLC

VARIABLES
    nodes,          \* the _Node objects created so far: [key, value, left, right]
    _root,          \* BSTMap._root: a node reference, or None
    _num_entries,   \* BSTMap._num_entries
    last,           \* history: key -> value of the last __setitem__ that returned, or Absent
    ret,            \* the last call: its operation, arguments and outcome
    it,             \* the iterator object returned by the last iter(map)
    yielded,        \* the keys next(it) has returned so far
    snap,           \* history: the keys in the map when iter(map) was called
    late,           \* history: keys created after iter(map) above the last yielded key
    dirty,          \* history: whether __setitem__ was called since iter(map)
    iterable,       \* the argument of BSTMap(iterable)
    pos,            \* how many pairs of iterable the step-by-step caller has inserted
    failed,         \* whether one of those step-by-step insertions raised
    built           \* the object state BSTMap(iterable) left behind

vars == <<nodes, _root, _num_entries, last, ret, it, yielded, snap, late, dirty,
          iterable, pos, failed, built>>

mapVars  == <<nodes, _root, _num_entries, last>>
iterVars == <<it, yielded, snap, late, dirty>>
ctorVars == <<iterable, pos, failed, built>>

-----------------------------------------------------------------------------
(* Bounds and the key / value domains.                                      *)

NumIntKeys == 3
NumStrKeys == 1
NumVals    == 2
MaxLen     == 3

IntPool == <<5, 3, 8, 12, 1, 20>>
StrPool == <<"x", "y", "z">>
ValPool == <<"A", "B", "C", "D", "E", "F">>

IntKey(n) == [cls |-> "int", v |-> n]
StrKey(i) == [cls |-> "str", v |-> i]

IntKeys == {IntKey(IntPool[i]) : i \in 1..NumIntKeys}
StrKeys == {StrKey(i) : i \in 1..NumStrKeys}
Keys    == IntKeys \cup StrKeys
Values  == {ValPool[i] : i \in 1..NumVals}

None    == 0
NoKey   == [cls |-> "none", v |-> 0]
NoneVal == "None"
Absent  == "<absent>"
Defaults == {NoneVal, ValPool[1]}

TypeError == "TypeError"
KeyError  == "KeyError"
NoExc     == ""

-----------------------------------------------------------------------------
(* Python's comparison of two keys.  == between an int and a str is False;  *)
(* < between them raises TypeError; strings of StrPool are in ascending     *)
(* order, so their indices compare as the strings do.                       *)

Lt(a, b) ==
    IF a.cls # b.cls THEN TypeError
    ELSE IF a.v < b.v THEN "True" ELSE "False"

-----------------------------------------------------------------------------
(* _Node.__init__                                                           *)

_Node(key, value, left, right) ==
    [key |-> key, value |-> value, left |-> left, right |-> right]

-----------------------------------------------------------------------------
(* __setitem__.  st is the part of the heap the call can write:             *)
(* [nodes, n] with n = self._num_entries.  The result carries the heap as   *)
(* the call left it, the returned reference, and whether it raised.         *)

_set_item_new(st, key, newvalue) ==
    [nodes |-> Append(st.nodes, _Node(key, newvalue, None, None)),
     n     |-> st.n + 1,
     ref   |-> Len(st.nodes) + 1,
     exc   |-> NoExc]

(* Variants of the update branch: one counts the update as a new entry,    *)
(* one keeps the old value, one replaces the node by a fresh leaf.          *)
_set_item_found_counts(st, node, newvalue) ==
    [nodes |-> [st.nodes EXCEPT ![node].value = newvalue],
     n     |-> st.n + 1,
     ref   |-> node,
     exc   |-> NoExc]

_set_item_found_keeps(st, node, newvalue) ==
    [nodes |-> st.nodes, n |-> st.n, ref |-> node, exc |-> NoExc]

_set_item_found_replaces(st, node, newvalue) ==
    [nodes |-> [st.nodes EXCEPT ![node] = _Node(st.nodes[node].key, newvalue, None, None)],
     n     |-> st.n,
     ref   |-> node,
     exc   |-> NoExc]

_set_item_found(st, node, newvalue) ==
    [nodes |-> [st.nodes EXCEPT ![node].value = newvalue],
     n     |-> st.n,
     ref   |-> node,
     exc   |-> NoExc]

(* Variant: the entry is counted before the comparison that raises.        *)
_set_item_raise_counted(st) ==
    [nodes |-> st.nodes, n |-> st.n + 1, ref |-> None, exc |-> TypeError]

_set_item_raise(st) ==
    [nodes |-> st.nodes, n |-> st.n, ref |-> None, exc |-> TypeError]

(* Variant: the left branch stores the returned subtree in node.right.      *)
_set_item_left_pasted(r, node) ==
    IF r.exc # NoExc THEN r
    ELSE [r EXCEPT !.nodes = [r.nodes EXCEPT ![node].right = r.ref], !.ref = node]

_set_item_left(r, node) ==
    IF r.exc # NoExc THEN r
    ELSE [r EXCEPT !.nodes = [r.nodes EXCEPT ![node].left = r.ref], !.ref = node]

_set_item_right(r, node) ==
    IF r.exc # NoExc THEN r
    ELSE [r EXCEPT !.nodes = [r.nodes EXCEPT ![node].right = r.ref], !.ref = node]

RECURSIVE _set_item(_, _, _, _)
_set_item(st, node, key, newvalue) ==
    IF node = None THEN _set_item_new(st, key, newvalue)
    ELSE IF st.nodes[node].key = key THEN _set_item_found(st, node, newvalue)
    ELSE LET c == Lt(key, st.nodes[node].key) IN
         IF c = TypeError THEN _set_item_raise(st)
         ELSE IF c = "True"
              THEN _set_item_left(_set_item(st, st.nodes[node].left, key, newvalue), node)
              ELSE _set_item_right(_set_item(st, st.nodes[node].right, key, newvalue), node)

(* self._root = _set_item(self._root, key, newvalue): the assignment runs   *)
(* only when the call returned.                                             *)
__setitem__(self, key, newvalue) ==
    LET r == _set_item([nodes |-> self.nodes, n |-> self.n], self.root, key, newvalue)
    IN  [nodes |-> r.nodes,
         n     |-> r.n,
         root  |-> IF r.exc = NoExc THEN r.ref ELSE self.root,
         exc   |-> r.exc]

-----------------------------------------------------------------------------
(* __getitem__, get, __contains__, __len__.                                 *)

RECURSIVE _get_item(_, _, _)
_get_item(ns, node, key) ==
    IF node = None THEN [exc |-> KeyError, out |-> NoneVal]
    ELSE IF ns[node].key = key THEN [exc |-> NoExc, out |-> ns[node].value]
    ELSE LET c == Lt(key, ns[node].key) IN
         IF c = TypeError THEN [exc |-> TypeError, out |-> NoneVal]
         ELSE IF c = "True" THEN _get_item(ns, ns[node].left, key)
              ELSE _get_item(ns, ns[node].right, key)

__getitem__(self, key) == _get_item(self.nodes, self.root, key)

RECURSIVE _get(_, _, _, _)
_get(ns, node, key, default_value) ==
    IF node = None THEN [exc |-> NoExc, out |-> default_value]
    ELSE IF ns[node].key = key THEN [exc |-> NoExc, out |-> ns[node].value]
    ELSE LET c == Lt(key, ns[node].key) IN
         IF c = TypeError THEN [exc |-> TypeError, out |-> NoneVal]
         ELSE IF c = "True" THEN _get(ns, ns[node].left, key, default_value)
              ELSE _get(ns, ns[node].right, key, default_value)

(* Variant: the caller's default is ignored and None is returned.          *)
get_ignores_default(self, key, default_value) ==
    _get(self.nodes, self.root, key, NoneVal)

get(self, key, default_value) == _get(self.nodes, self.root, key, default_value)

RECURSIVE _contains(_, _, _)
_contains(ns, node, key) ==
    IF node = None THEN [exc |-> NoExc, b |-> FALSE]
    ELSE IF ns[node].key = key THEN [exc |-> NoExc, b |-> TRUE]
    ELSE LET c == Lt(key, ns[node].key) IN
         IF c = TypeError THEN [exc |-> TypeError, b |-> FALSE]
         ELSE IF c = "True" THEN _contains(ns, ns[node].left, key)
              ELSE _contains(ns, ns[node].right, key)

__contains__(self, key) == _contains(self.nodes, self.root, key)

__len__(self) == self.n

-----------------------------------------------------------------------------
(* _Node.__iter__: the generator.  A generator object is the stack of its   *)
(* suspended frames, outermost first; a frame is [node, pc] with pc          *)
(*   "start"  not yet run                                                    *)
(*   "left"   inside  for elem in self.left                                  *)
(*   "key"    suspended at  yield self.key                                   *)
(*   "right"  inside  for elem in self.right                                 *)
(* next() resumes the innermost frame; self.left and self.right are read     *)
(* when the frame reaches the test, not when the generator was created.      *)

Frame(node, pc) == [node |-> node, pc |-> pc]

Front(s) == SubSeq(s, 1, Len(s) - 1)

(* Variant: a preorder traversal (the key is yielded before the left       *)
(* subtree is visited).                                                     *)
RECURSIVE _Node__iter__preorder(_, _)
_Node__iter__preorder(ns, stack) ==
    IF stack = <<>> THEN [stack |-> <<>>, stop |-> TRUE, out |-> NoKey]
    ELSE LET top  == stack[Len(stack)]
             rest == Front(stack)
             self == ns[top.node]
         IN  CASE top.pc = "start" ->
                    [stack |-> rest \o <<Frame(top.node, "key")>>,
                     stop  |-> FALSE, out |-> self.key]
               [] top.pc = "key" ->
                    IF self.left # None
                    THEN _Node__iter__preorder(ns, rest \o <<Frame(top.node, "left"),
                                                             Frame(self.left, "start")>>)
                    ELSE _Node__iter__preorder(ns, rest \o <<Frame(top.node, "left")>>)
               [] top.pc = "left" ->
                    IF self.right # None
                    THEN _Node__iter__preorder(ns, rest \o <<Frame(top.node, "right"),
                                                             Frame(self.right, "start")>>)
                    ELSE _Node__iter__preorder(ns, rest)
               [] OTHER -> _Node__iter__preorder(ns, rest)

RECURSIVE _Node__iter__(_, _)
_Node__iter__(ns, stack) ==
    IF stack = <<>> THEN [stack |-> <<>>, stop |-> TRUE, out |-> NoKey]
    ELSE LET top  == stack[Len(stack)]
             rest == Front(stack)
             self == ns[top.node]
         IN  CASE top.pc = "start" ->
                    IF self.left # None
                    THEN _Node__iter__(ns, rest \o <<Frame(top.node, "left"),
                                                     Frame(self.left, "start")>>)
                    ELSE [stack |-> rest \o <<Frame(top.node, "key")>>,
                          stop  |-> FALSE, out |-> self.key]
               [] top.pc = "left" ->
                    [stack |-> rest \o <<Frame(top.node, "key")>>,
                     stop  |-> FALSE, out |-> self.key]
               [] top.pc = "key" ->
                    IF self.right # None
                    THEN _Node__iter__(ns, rest \o <<Frame(top.node, "right"),
                                                     Frame(self.right, "start")>>)
                    ELSE _Node__iter__(ns, rest)
               [] OTHER -> _Node__iter__(ns, rest)

(* An iterator object is a generator (its stack) or a list iterator (the    *)
(* items it has not returned yet); done records that it raised              *)
(* StopIteration.                                                           *)
Generator(stack)    == [kind |-> "gen",  stack |-> stack, items |-> <<>>, done |-> FALSE]
ListIterator(items) == [kind |-> "list", stack |-> <<>>, items |-> items, done |-> FALSE]

(* next(itr) on the heap ns.                                                *)
__next__(ns, itr) ==
    IF itr.kind = "gen"
    THEN LET r == _Node__iter__(ns, itr.stack)
         IN  [itr |-> [itr EXCEPT !.stack = r.stack, !.done = r.stop],
              stop |-> r.stop, out |-> r.out]
    ELSE IF itr.items = <<>>
         THEN [itr |-> [itr EXCEPT !.done = TRUE], stop |-> TRUE, out |-> NoKey]
         ELSE [itr |-> [itr EXCEPT !.items = Tail(itr.items)],
               stop |-> FALSE, out |-> Head(itr.items)]

(* The keys a for loop over the iterator collects when nothing else runs.   *)
RECURSIVE Drain(_, _)
Drain(ns, itr) ==
    LET r == __next__(ns, itr)
    IN  IF r.stop THEN <<>> ELSE <<r.out>> \o Drain(ns, r.itr)

(* Variant: the keys are collected when iter(map) is called and a list     *)
(* iterator over them is returned.                                          *)
__iter__eager(self) ==
    IF self.root # None
    THEN ListIterator(Drain(self.nodes, Generator(<<Frame(self.root, "start")>>)))
    ELSE ListIterator(<<>>)

(* BSTMap.__iter__: the root's generator, or iter([]) for the empty tree.   *)
__iter__(self) ==
    IF self.root # None
    THEN Generator(<<Frame(self.root, "start")>>)
    ELSE ListIterator(<<>>)

-----------------------------------------------------------------------------
(* __str__ and repr.                                                        *)

Digit == <<"0", "1", "2", "3", "4", "5", "6", "7", "8", "9">>

RECURSIVE ReprInt(_)
ReprInt(n) ==
    IF n < 10 THEN Digit[n + 1] ELSE ReprInt(n \div 10) \o Digit[(n % 10) + 1]

ReprStr(s) == "'" \o s \o "'"

ReprKey(k) == IF k.cls = "int" THEN ReprInt(k.v) ELSE ReprStr(StrPool[k.v])

RECURSIVE Join(_, _)
Join(sep, parts) ==
    IF parts = <<>> THEN ""
    ELSE IF Len(parts) = 1 THEN parts[1]
    ELSE parts[1] \o sep \o Join(sep, Tail(parts))

(* Variant: every entry is followed by the separator, the last one too.    *)
__str__trailing(self) ==
    LET ks    == Drain(self.nodes, __iter__(self))
        parts == [i \in 1..Len(ks) |->
                    ReprKey(ks[i]) \o ": " \o ReprStr(__getitem__(self, ks[i]).out) \o ", "]
    IN  "{" \o Join("", parts) \o "}"

__str__(self) ==
    LET ks    == Drain(self.nodes, __iter__(self))
        parts == [i \in 1..Len(ks) |->
                    ReprKey(ks[i]) \o ": " \o ReprStr(__getitem__(self, ks[i]).out)]
    IN  "{" \o Join(", ", parts) \o "}"

-----------------------------------------------------------------------------
(* BSTMap.__init__(iterable).  An exception of self[key] = value leaves the *)
(* loop; the record keeps the object as the loop left it.                   *)

(* Variant: a pair whose key is already in the map is skipped.             *)
RECURSIVE __init__loop_skips(_, _, _)
__init__loop_skips(self, pairs, i) ==
    IF i > Len(pairs) THEN self
    ELSE IF __contains__(self, pairs[i][1]).b THEN __init__loop_skips(self, pairs, i + 1)
    ELSE LET r == __setitem__(self, pairs[i][1], pairs[i][2])
         IN  IF r.exc # NoExc THEN r ELSE __init__loop_skips(r, pairs, i + 1)

RECURSIVE __init__loop(_, _, _)
__init__loop(self, pairs, i) ==
    IF i > Len(pairs) THEN self
    ELSE LET r == __setitem__(self, pairs[i][1], pairs[i][2])
         IN  IF r.exc # NoExc THEN r ELSE __init__loop(r, pairs, i + 1)

__init__(pairs) ==
    __init__loop([nodes |-> <<>>, n |-> 0, root |-> None, exc |-> NoExc], pairs, 1)

-----------------------------------------------------------------------------
(* The state machine.                                                       *)

Self == [nodes |-> nodes, n |-> _num_entries, root |-> _root]

Ret(op, key, val, exc, out, n, b) ==
    [op |-> op, key |-> key, val |-> val, exc |-> exc, out |-> out, n |-> n, b |-> b]

NoIter   == [kind |-> "none", stack |-> <<>>, items |-> <<>>, done |-> FALSE]
NotBuilt == [made |-> FALSE, nodes |-> <<>>, n |-> 0, root |-> None, exc |-> NoExc]

InitMap ==
    /\ nodes = <<>>
    /\ _root = None
    /\ _num_entries = 0
    /\ last = [k \in Keys |-> Absent]
    /\ ret = Ret("init", NoKey, NoneVal, NoExc, NoneVal, 0, FALSE)

InitIter ==
    /\ it = NoIter
    /\ yielded = <<>>
    /\ snap = {}
    /\ late = {}
    /\ dirty = FALSE

InitCtor ==
    /\ iterable = <<>>
    /\ pos = 0
    /\ failed = FALSE
    /\ built = NotBuilt

Init == InitMap /\ InitIter /\ InitCtor

(* map[key] = newvalue                                                      *)
SetItem(key, newvalue) ==
    LET r == __setitem__(Self, key, newvalue)
    IN  /\ nodes' = r.nodes
        /\ _num_entries' = r.n
        /\ _root' = r.root
        /\ last' = IF r.exc = NoExc THEN [last EXCEPT ![key] = newvalue] ELSE last
        /\ ret' = Ret("setitem", key, newvalue, r.exc, NoneVal, 0, FALSE)

(* map[key]                                                                 *)
GetItem(key) ==
    LET r == __getitem__(Self, key)
    IN  /\ ret' = Ret("getitem", key, NoneVal, r.exc, r.out, 0, FALSE)
        /\ UNCHANGED mapVars

(* map.get(key, default_value)                                              *)
Get(key, default_value) ==
    LET r == get(Self, key, default_value)
    IN  /\ ret' = Ret("get", key, default_value, r.exc, r.out, 0, FALSE)
        /\ UNCHANGED mapVars

(* key in map                                                               *)
Contains(key) ==
    LET r == __contains__(Self, key)
    IN  /\ ret' = Ret("contains", key, NoneVal, r.exc, NoneVal, 0, r.b)
        /\ UNCHANGED mapVars

(* len(map)                                                                 *)
LenCall ==
    /\ ret' = Ret("len", NoKey, NoneVal, NoExc, NoneVal, __len__(Self), FALSE)
    /\ UNCHANGED mapVars

(* str(map)                                                                 *)
StrCall ==
    /\ ret' = Ret("str", NoKey, NoneVal, NoExc, __str__(Self), 0, FALSE)
    /\ UNCHANGED mapVars

otherVars == <<it, yielded, snap, late, dirty, iterable, pos, failed, built>>

DoSetItem  == \E k \in Keys, v \in Values : SetItem(k, v) /\ UNCHANGED otherVars
DoGetItem  == \E k \in Keys : GetItem(k) /\ UNCHANGED otherVars
DoGet      == \E k \in Keys, d \in Defaults : Get(k, d) /\ UNCHANGED otherVars
DoContains == \E k \in Keys : Contains(k) /\ UNCHANGED otherVars
DoLen      == LenCall /\ UNCHANGED otherVars
DoStr      == StrCall /\ UNCHANGED otherVars

Next ==
    \/ DoSetItem
    \/ DoGetItem
    \/ DoGet
    \/ DoContains
    \/ DoLen
    \/ DoStr

Spec == Init /\ [][Next]_vars

-----------------------------------------------------------------------------
(* Traversal interleaved with insertion: iter(map), next(it) and            *)
(* map[key] = value called by one consumer, in any order.                   *)

StopIteration == "StopIteration"

InsertedKeys == {k \in Keys : last[k] # Absent}

(* it = iter(map)                                                           *)
IterCall ==
    /\ it' = __iter__(Self)
    /\ yielded' = <<>>
    /\ snap' = InsertedKeys
    /\ late' = {}
    /\ dirty' = FALSE
    /\ ret' = Ret("iter", NoKey, NoneVal, NoExc, NoneVal, 0, FALSE)
    /\ UNCHANGED mapVars
    /\ UNCHANGED ctorVars

(* next(it)                                                                 *)
NextElem ==
    /\ it.kind # "none"
    /\ ~it.done
    /\ LET r == __next__(nodes, it)
       IN  /\ it' = r.itr
           /\ yielded' = IF r.stop THEN yielded ELSE Append(yielded, r.out)
           /\ ret' = Ret("next", r.out, NoneVal,
                         IF r.stop THEN StopIteration ELSE NoExc, NoneVal, 0, FALSE)
    /\ UNCHANGED <<snap, late, dirty>>
    /\ UNCHANGED mapVars
    /\ UNCHANGED ctorVars

(* map[key] = newvalue while the iterator exists; late records the keys     *)
(* created above the traversal's position.                                  *)
Ahead(key) ==
    /\ snap # {}
    /\ it.kind # "none"
    /\ ~it.done
    /\ \/ yielded = <<>>
       \/ Lt(yielded[Len(yielded)], key) = "True"

IterSetItem(key, newvalue) ==
    /\ SetItem(key, newvalue)
    /\ late' = IF _num_entries' # _num_entries /\ Ahead(key)
               THEN late \cup {key} ELSE late
    /\ dirty' = (it.kind # "none")
    /\ UNCHANGED <<it, yielded, snap>>
    /\ UNCHANGED ctorVars

(* The traversal yields keys only: two values are enough to tell an update *)
(* from an insertion.                                                       *)
IterValues == {ValPool[1], ValPool[2]}

DoIterSetItem == \E k \in Keys, v \in IterValues : IterSetItem(k, v)

NextIter ==
    \/ DoIterSetItem
    \/ IterCall
    \/ NextElem

SpecIter == Init /\ [][NextIter]_vars

-----------------------------------------------------------------------------
(* The sequence constructor against one __setitem__ call per pair.          *)

CtorValues == {ValPool[1], ValPool[2]}
CtorPairs  == {<<k, v>> : k \in Keys, v \in CtorValues}

(* spec.md section 8: insert (5,"A"), (3,"B"), (8,"C"), (3,"D").            *)
Scenario ==
    << <<IntKey(5), "A">>, <<IntKey(3), "B">>, <<IntKey(8), "C">>, <<IntKey(3), "D">> >>

CtorInputs == UNION {[1..m -> CtorPairs] : m \in 0..MaxLen} \cup {Scenario}

InitC ==
    /\ InitMap
    /\ InitIter
    /\ iterable \in CtorInputs
    /\ pos = 0
    /\ failed = FALSE
    /\ built = NotBuilt

(* The caller's own loop: map[key] = value for the next pair of iterable,   *)
(* going on after a call that raised.                                       *)
StepInsert ==
    /\ pos < Len(iterable)
    /\ SetItem(iterable[pos + 1][1], iterable[pos + 1][2])
    /\ pos' = pos + 1
    /\ failed' = (failed \/ ret'.exc # NoExc)
    /\ UNCHANGED <<iterable, built>>
    /\ UNCHANGED iterVars

(* BSTMap(iterable)                                                         *)
Construct ==
    /\ ~built.made
    /\ LET r == __init__(iterable)
       IN  built' = [made |-> TRUE, nodes |-> r.nodes, n |-> r.n,
                     root |-> r.root, exc |-> r.exc]
    /\ UNCHANGED <<iterable, pos, failed, ret>>
    /\ UNCHANGED mapVars
    /\ UNCHANGED iterVars

CtorStr ==
    /\ StrCall
    /\ UNCHANGED ctorVars
    /\ UNCHANGED iterVars

NextC ==
    \/ StepInsert
    \/ Construct
    \/ CtorStr

SpecCtor == InitC /\ [][NextC]_vars

-----------------------------------------------------------------------------
(* Properties.  What the properties say about the tree is stated over the   *)
(* arena directly, not through the map's own methods.                       *)

(* The nodes of the subtree at node; fuel bounds the depth, so that a heap  *)
(* with a cycle is still walked in finitely many steps.                     *)
RECURSIVE Reach(_, _, _)
Reach(ns, node, fuel) ==
    IF node = None \/ fuel = 0 THEN {}
    ELSE {node} \cup Reach(ns, ns[node].left, fuel - 1)
                \cup Reach(ns, ns[node].right, fuel - 1)

Desc(ns, node) == Reach(ns, node, Len(ns))

(* The number of paths from node to a node of its subtree; more than        *)
(* Len(ns) when the walk does not end within the depth a tree can have.     *)
RECURSIVE Paths(_, _, _)
Paths(ns, node, fuel) ==
    IF node = None THEN 0
    ELSE IF fuel = 0 THEN Len(ns) + 1
    ELSE 1 + Paths(ns, ns[node].left, fuel - 1) + Paths(ns, ns[node].right, fuel - 1)

Elems(s) == {s[i] : i \in 1..Len(s)}

Ascending(s) == \A i \in 1..(Len(s) - 1) : Lt(s[i], s[i + 1]) = "True"

(* The keys of the map's own key type: those < can compare with every key   *)
(* stored (spec.md sections 3 and 7 take the key domain as totally ordered).*)
Comparable(k) == \A j \in InsertedKeys : j.cls = k.cls

(* C1: after any sequence of __setitem__ calls, len(map), i.e.              *)
(* _num_entries, equals the number of distinct keys inserted so far, which  *)
(* equals the number of nodes reachable from the root (and every node ever  *)
(* created is reachable).                                                   *)
C1_SizeIsDistinctKeys ==
    /\ _num_entries = Cardinality(InsertedKeys)
    /\ Cardinality(Desc(nodes, _root)) = _num_entries
    /\ Desc(nodes, _root) = 1..Len(nodes)
    /\ __len__(Self) = Cardinality(InsertedKeys)
    /\ ret.op = "len" => ret.n = Cardinality(InsertedKeys)

C1_Witness ==
    /\ ret.op = "len"
    /\ ret.n = 3
    /\ Cardinality(InsertedKeys) = 3

(* C2: for every key inserted at least once, map[key] returns the value of  *)
(* the last __setitem__ call for that key, whatever other keys were         *)
(* inserted before, between or after.                                       *)
C2_LookupLastValue ==
    /\ \A k \in InsertedKeys :
          __getitem__(Self, k) = [exc |-> NoExc, out |-> last[k]]
    /\ (ret.op = "getitem" /\ last[ret.key] # Absent) =>
          (ret.exc = NoExc /\ ret.out = last[ret.key])

C2_Witness ==
    /\ ret.op = "getitem"
    /\ ret.exc = NoExc
    /\ Cardinality(InsertedKeys) = 3
    /\ ret.key # nodes[_root].key
    /\ ret.out = ValPool[2]

C4_InOrderTraversal ==
    (it.done /\ ~dirty) =>
        /\ Ascending(yielded)
        /\ Elems(yielded) = InsertedKeys
        /\ Len(yielded) = Cardinality(InsertedKeys)
        /\ InsertedKeys = {} => yielded = <<>>

C4_Witness ==
    /\ it.done
    /\ ~dirty
    /\ Len(yielded) = 3
    /\ nodes[_root].left # None
    /\ nodes[_root].right # None

(* C5 as stated: a traversal run to exhaustion yields exactly the keys that *)
(* were in the map when iter(map) was called, and none of the keys inserted *)
(* between its yields.                                                      *)
C5_SnapshotTraversal ==
    it.done => Elems(yielded) = snap

(* C5 amended: the traversal is a live view.  Run to exhaustion it yields,  *)
(* in strictly ascending order and once each, every key that was in the map *)
(* when iter(map) was called and exactly those keys inserted afterwards     *)
(* that, when inserted, were greater than the last key yielded (any new key *)
(* if none was yielded yet); keys inserted below the last yielded key,      *)
(* after StopIteration, or into a map that was empty at iter(map), are not  *)
(* yielded.                                                                 *)
C5_LiveTraversal ==
    /\ it.kind # "none" => Elems(yielded) \subseteq (snap \cup late)
    /\ it.kind # "none" => Ascending(yielded)
    /\ it.done =>
          /\ Elems(yielded) = snap \cup late
          /\ Len(yielded) = Cardinality(snap \cup late)

C5_Witness ==
    /\ it.done
    /\ snap # {}
    /\ late # {}
    /\ late \subseteq Elems(yielded)
    /\ InsertedKeys \ (snap \cup late) # {}

(* C6: a __setitem__ call for a key already present overwrites only that    *)
(* node's value: no node is created, len(map) is unchanged, every node's    *)
(* key and links are unchanged, and every other key keeps its value; the    *)
(* same (key, value) inserted twice in succession leaves the map as it was  *)
(* after the first insertion.                                               *)
C6_UpdateInPlace ==
    [][ (ret'.op = "setitem" /\ ret'.exc = NoExc /\ last[ret'.key] # Absent) =>
          /\ _num_entries' = _num_entries
          /\ _root' = _root
          /\ Len(nodes') = Len(nodes)
          /\ \A n \in 1..Len(nodes) :
                /\ nodes'[n].key = nodes[n].key
                /\ nodes'[n].left = nodes[n].left
                /\ nodes'[n].right = nodes[n].right
                /\ nodes'[n].value = IF nodes[n].key = ret'.key
                                     THEN ret'.val ELSE nodes[n].value
          /\ \A k \in InsertedKeys \ {ret'.key} :
                _get_item(nodes', _root', k) = _get_item(nodes, _root, k)
          /\ (ret.op = "setitem" /\ ret.exc = NoExc /\ ret.key = ret'.key
                /\ ret.val = ret'.val) =>
                (nodes' = nodes /\ _root' = _root /\ _num_entries' = _num_entries)
      ]_vars

(* Node 1 was created before nodes 2 and 3, so the last call, for node 1's  *)
(* key, found it present.                                                   *)
C6_Witness ==
    /\ ret.op = "setitem"
    /\ ret.exc = NoExc
    /\ Len(nodes) = 3
    /\ nodes[1].key = ret.key
    /\ nodes[1].value = ret.val
    /\ nodes[1].left # None
    /\ nodes[1].right # None

(* C7: for every sequence of pairs, BSTMap(pairs) and an empty map followed *)
(* by one __setitem__ call per pair in the same order end in the same tree  *)
(* (shape, keys, values), the same len, the same map[key] for every key,    *)
(* the same traversal and the same rendering; the constructor raises        *)
(* exactly when one of the calls raises.                                    *)
C7_CtorEquivalence ==
    (built.made /\ pos = Len(iterable)) =>
        /\ (built.exc # NoExc) <=> failed
        /\ ~failed =>
              /\ built.nodes = nodes
              /\ built.root = _root
              /\ built.n = _num_entries
              /\ __len__(built) = __len__(Self)
              /\ \A k \in Keys : __getitem__(built, k) = __getitem__(Self, k)
              /\ Drain(built.nodes, __iter__(built)) = Drain(nodes, __iter__(Self))
              /\ __str__(built) = __str__(Self)

C7_Witness ==
    /\ built.made
    /\ pos = Len(iterable)
    /\ Len(iterable) = 3
    /\ ~failed
    /\ built.n = 2
    /\ iterable[1][1] = iterable[3][1]
    /\ iterable[1][2] # iterable[3][2]

(* C8: a __setitem__ call that raises the comparison's TypeError leaves the *)
(* map exactly as it was: no node created or re-linked, no value            *)
(* overwritten, _num_entries not incremented.                               *)
C8_FailedInsertAtomic ==
    [][ (ret'.op = "setitem" /\ ret'.exc = TypeError) =>
          (nodes' = nodes /\ _root' = _root /\ _num_entries' = _num_entries)
      ]_vars

C8_Witness ==
    /\ ret.op = "setitem"
    /\ ret.exc = TypeError
    /\ _num_entries = 3
    /\ last[ret.key] = Absent

(* C9: str(map) is "{" + the entries repr(key) + ": " + repr(value) in      *)
(* ascending key order, each with the key's last inserted value, joined by  *)
(* ", " with nothing after the last entry, + "}"; the empty map renders as  *)
(* {} and the map after (5,'A'), (3,'B'), (8,'C'), (3,'D') as               *)
(* {3: 'D', 5: 'A', 8: 'C'}.                                                *)
SortedKeys ==
    CHOOSE s \in [1..Cardinality(InsertedKeys) -> InsertedKeys] : Ascending(s)

RECURSIVE Rendered(_, _)
Rendered(ks, i) ==
    IF i > Len(ks) THEN ""
    ELSE (IF i > 1 THEN ", " ELSE "")
         \o ReprKey(ks[i]) \o ": '" \o last[ks[i]] \o "'" \o Rendered(ks, i + 1)

C10_ValidBST ==
    /\ \A n \in Desc(nodes, _root) :
          /\ \A m \in Desc(nodes, nodes[n].left) :
                Lt(nodes[m].key, nodes[n].key) = "True"
          /\ \A m \in Desc(nodes, nodes[n].right) :
                Lt(nodes[n].key, nodes[m].key) = "True"
    /\ \A m, n \in Desc(nodes, _root) : m # n => nodes[m].key # nodes[n].key
    /\ Paths(nodes, _root, Len(nodes)) = Cardinality(Desc(nodes, _root))

C10_Witness ==
    /\ Len(nodes) = 3
    /\ nodes[_root].left # None
    /\ nodes[_root].right # None
    /\ nodes[nodes[_root].left].value = ValPool[2]

=============================================================================
